---- MODULE Spec2Model ----
(***************************************************************************)
(* Model of the Electron main process of the ItchySats desktop shell       *)
(* (src/maker-frontend/src/components/Hooks.tsx, lines 54-271): window and *)
(* tray lifecycle, port allocation with randomized retries, the liveness   *)
(* probe with doubling timeout, and the launch of the background service.  *)
(*                                                                         *)
(* JavaScript runs every handler to completion, so each action below is    *)
(* one handler (or one synchronous segment of an async function between    *)
(* two awaits).  Outcomes of the environment (bind results, probe results, *)
(* navigation results, user clicks) are nondeterministic choices.          *)
(***************************************************************************)
EXTENDS Integers, Sequences, FiniteSets, TLC

\* ---------------------------------------------------------------- bounds
MaxWindows  == 2   \* windows created during one process lifetime
MaxRequests == 4   \* probe requests issued during one process lifetime
MaxBudget   == 5   \* largest retry budget R tried in RetrySpec
RetryGrain  == 2   \* Math.random() is sampled at r / RetryGrain in RetrySpec
MaxEvents   == 3   \* events dispatched to one useLatestEvent in HookSpec

\* ------------------------------------------------------ program constants
DefaultPort    == 8000
PreferredPort  == 7113
RetryBudget    == 5
InitialTimeout == 500
minPort        == 10000
maxPort        == 65535

NoWindow == 0

Platforms == {"win32", "darwin", "linux"}

VARIABLES
    platform,        \* process.platform
    isDebug,         \* isDebug (line 63)
    mainWindow,      \* NoWindow (null) or the id of the live BrowserWindow
    win,             \* the state of the live BrowserWindow
    allWindows,      \* ids of the BrowserWindows constructed and not closed
    winCount,        \* number of BrowserWindows constructed so far
    tray,            \* TRUE iff the module variable tray is defined
    trayCount,       \* number of Tray objects constructed so far
    dockVisible,     \* darwin: app.dock.show() / app.dock.hide()
    port,            \* the module variable port
    pcMain,          \* position of the app.whenReady().then(...) callback
    alloc,           \* the current activation of retry(...)
    nExt,            \* fire-and-forget createWindow calls suspended at await
                     \* installExtensions(): 0 for none, 1 for one or more
    nDock,           \* the same for await app.dock.show()
    service,         \* the itchysats(...) promise: not started, running or
                     \* settled (both outcomes are only logged)
    servicePort,     \* the port handed to itchysats(...)
    launches,        \* number of itchysats(...) calls
    activateOn,      \* TRUE iff the "activate" listener is registered
    chains,          \* probe chains, one per setTimeout(alive, 500, 500) of createWindow
    lastAlive,       \* TRUE iff the most recent probe of 127.0.0.1:port that
                     \* has ended received a response
    quitClicked,     \* the tray "Quit" entry has been clicked
    quitBy,          \* "none", or the handler that invoked app.quit()
    hook,            \* one mounted useLatestEvent: its arguments filter and
                     \* mapping, its React state, the value its latest call
                     \* returned, and whether a render is due
    events           \* the data of the event_name events dispatched so far

\* The component that calls useLatestEvent (lines 4-32).
Renderer == << hook, events >>

vars == << platform, isDebug, mainWindow, win, allWindows, winCount, tray,
           trayCount, dockVisible, port, pcMain, alloc, nExt, nDock, service,
           servicePort, launches, activateOn, chains, lastAlive, quitClicked,
           quitBy, hook, events >>

Running == quitBy = "none"

\* ------------------------------------------------------- port allocation
\* Math.random() is in [0, 1).  A value is written as a fraction <<num, den>>.
\* TopSample is a value just below 1; RandomSamples(g) adds r / g for r in
\* 0 .. g-1.
TopSample == << 65535, 65536 >>

RandomSamples(g) == { <<r, g>> : r \in 0 .. (g - 1) } \cup { TopSample }

RECURSIVE GCD(_, _)
GCD(a, b) == IF b = 0 THEN a ELSE GCD(b, a % b)

\* A mistaken candidate that rounds up instead of down.
RandomPortCeil(x) ==
    LET width == maxPort - minPort + 1
        g == GCD(width, x[2])
        d == x[2] \div g
    IN ((x[1] * (width \div g) + d - 1) \div d) + minPort

\* Math.floor(Math.random() * (maxPort - minPort + 1) + minPort), for
\* Math.random() = x[1] / x[2].  The fraction is reduced against the width
\* of the range before multiplying, which keeps the product in TLC's integers
\* and leaves the quotient as it is.
RandomPort(x) ==
    LET width == maxPort - minPort + 1
        g == GCD(width, x[2])
    IN ((x[1] * (width \div g)) \div (x[2] \div g)) + minPort

\* An activation of retry: maxRetries and candidate are its parameters
\* maxRetries and port; budget and preferred are those of the outermost call;
\* attempts and fails count the calls of fn and their rejections.
NoAlloc ==
    [ st |-> "idle", budget |-> 0, preferred |-> 0, maxRetries |-> 0,
      candidate |-> 0, attempts |-> 0, fails |-> 0, result |-> 0 ]

\* The outermost call retry(R, checkAvailablePort, p)
retryCall(R, p) ==
    [ NoAlloc EXCEPT !.st = "binding", !.budget = R, !.preferred = p,
                     !.maxRetries = R, !.candidate = p, !.attempts = 1 ]

\* retry(maxRetries, fn, port): calls fn(port), i.e. starts one bind attempt.
retry(a, mr, p) ==
    [ a EXCEPT !.st = "binding", !.maxRetries = mr, !.candidate = p,
               !.attempts = @ + 1 ]

\* A mistaken .catch of retry that gives up one failure late.
retryCatchLate(a, x) ==
    IF a.maxRetries < 0
    THEN [ a EXCEPT !.st = "rejected", !.fails = @ + 1 ]
    ELSE retry([ a EXCEPT !.fails = @ + 1 ], a.maxRetries - 1, RandomPort(x))

\* The .catch of retry: rethrow when the budget is used up, otherwise recurse
\* with one retry less and a random port.
retryCatch(a, x) ==
    IF a.maxRetries <= 0
    THEN [ a EXCEPT !.st = "rejected", !.fails = @ + 1 ]
    ELSE retry([ a EXCEPT !.fails = @ + 1 ], a.maxRetries - 1, RandomPort(x))

\* A mistaken checkAvailablePort that resolves with the preferred port.
checkAvailablePortPreferred(a) ==
    [ a EXCEPT !.st = "resolved", !.result = a.preferred ]

\* checkAvailablePort resolves with server.address().port, the port it bound.
checkAvailablePort(a) ==
    [ a EXCEPT !.st = "resolved", !.result = a.candidate ]

\* ------------------------------------------------------------ the window
NoWin ==
    [ shown |-> "none", content |-> "none", nav |-> "none", navPort |-> 0,
      skipTaskbar |-> FALSE ]

\* A mistaken createWindow that loads the service URL straight away.
NewWindowService ==
    [ shown |-> "hidden", content |-> "service", nav |-> "none",
      navPort |-> 0, skipTaskbar |-> FALSE ]

\* new BrowserWindow({show: false, ...}); loadURL(resolveHtmlPath("index.html"))
NewWindow ==
    [ shown |-> "hidden", content |-> "index", nav |-> "none", navPort |-> 0,
      skipTaskbar |-> FALSE ]

\* ------------------------------------------------------------- the probe
NoChain ==
    [ st |-> "none", delay |-> 0, timeout |-> 0, attempt |-> 0, fails |-> 0,
      alives |-> 0, loads |-> 0, reqPort |-> 0 ]

\* setTimeout(alive, 500, 500, 500): alive(500) is due after 500 ms.
NewChain ==
    [ NoChain EXCEPT !.st = "timer", !.delay = InitialTimeout,
                     !.timeout = InitialTimeout ]

\* alive(timeout), up to request.end(): one request to http://127.0.0.1:port
aliveRequest(ch, p) ==
    [ ch EXCEPT !.st = "request", !.attempt = @ + 1, !.reqPort = p ]

\* A mistaken error handler that reschedules without doubling the timeout.
aliveErrorFlat(ch) ==
    [ ch EXCEPT !.st = "timer", !.delay = ch.timeout, !.fails = @ + 1,
                !.reqPort = 0 ]

\* A mistaken error handler that gives up after the second failure.
aliveErrorGivesUp(ch) ==
    IF ch.fails >= 1
    THEN [ ch EXCEPT !.st = "done", !.fails = @ + 1, !.reqPort = 0 ]
    ELSE [ ch EXCEPT !.st = "timer", !.delay = ch.timeout,
                     !.timeout = ch.timeout + ch.timeout, !.fails = @ + 1,
                     !.reqPort = 0 ]

\* request.on("error"): setTimeout(alive, timeout, timeout + timeout)
aliveError(ch) ==
    [ ch EXCEPT !.st = "timer", !.delay = ch.timeout,
                !.timeout = ch.timeout + ch.timeout, !.fails = @ + 1,
                !.reqPort = 0 ]

\* A mistaken response handler that also schedules the next attempt.
aliveResponseReschedules(ch, mw) ==
    [ ch EXCEPT !.st = "timer", !.alives = @ + 1,
                !.loads = IF mw = NoWindow THEN @ ELSE @ + 1,
                !.reqPort = 0 ]

\* A mistaken response handler whose guard on mainWindow is inverted.
aliveResponseInverted(ch, mw) ==
    [ ch EXCEPT !.st = "done", !.alives = @ + 1,
                !.loads = IF mw # NoWindow THEN @ ELSE @ + 1,
                !.reqPort = 0 ]

\* request.on("response"): load the service URL when there is a window
aliveResponse(ch, mw) ==
    [ ch EXCEPT !.st = "done", !.alives = @ + 1,
                !.loads = IF mw = NoWindow THEN @ ELSE @ + 1,
                !.reqPort = 0 ]

\* mainWindow.loadURL(`http://127.0.0.1:${port}`) on the live window
loadService(w, p) ==
    [ w EXCEPT !.nav = "pending", !.navPort = p ]

Sum(f, S) ==
    LET RECURSIVE Acc(_)
        Acc(T) == IF T = {} THEN 0
                  ELSE LET x == CHOOSE y \in T : TRUE IN f[x] + Acc(T \ {x})
    IN Acc(S)

ChainIds == 1 .. MaxWindows
Requests   == Sum([c \in ChainIds |-> chains[c].attempt], ChainIds)
Failures   == Sum([c \in ChainIds |-> chains[c].fails], ChainIds)
AliveCount == Sum([c \in ChainIds |-> chains[c].alives], ChainIds)
ServiceLoads == Sum([c \in ChainIds |-> chains[c].loads], ChainIds)
Closes == winCount - (IF mainWindow = NoWindow THEN 0 ELSE 1)

\* ---------------------------------------------------------- createWindow
\* A createWindow call is either the one app.whenReady awaits (isMain) or a
\* fire-and-forget call of the tray or of "activate".  Any number of
\* fire-and-forget calls may be suspended at an await; they all resume into
\* the same code, so the model keeps, for each await, whether one or more
\* are suspended there.  nE and nD are these two values once the resumed
\* call is taken out.  Each operator below is one synchronous segment and
\* determines
\* mainWindow, win, allWindows, winCount, tray, trayCount, chains, pcMain,
\* alloc, nExt, nDock and dockVisible.

\* The call suspends at an await.
Suspend(isMain, where, nE, nD) ==
    /\ IF isMain
       THEN pcMain' = where /\ nExt' = nE /\ nDock' = nD
       ELSE /\ pcMain' = pcMain
            /\ nExt' = (IF where = "cw_ext" THEN 1 ELSE nE)
            /\ nDock' = (IF where = "cw_dock" THEN 1 ELSE nD)
    /\ UNCHANGED << mainWindow, win, allWindows, winCount, tray, trayCount,
                    chains, alloc >>

\* createTray: tray = new Tray(...)
createTray ==
    /\ tray' = TRUE
    /\ trayCount' = trayCount + 1

\* A mistaken createWindow that does not arm the probe timer.
CreateRestNoProbe(isMain, w, nE, nD) ==
    /\ IF ~tray THEN createTray ELSE UNCHANGED << tray, trayCount >>
    /\ IF mainWindow # NoWindow
       THEN /\ win' = w
            /\ UNCHANGED << mainWindow, allWindows, winCount >>
       ELSE /\ winCount < MaxWindows
            /\ winCount' = winCount + 1
            /\ mainWindow' = winCount + 1
            /\ allWindows' = allWindows \cup { winCount + 1 }
            /\ win' = NewWindow
    /\ UNCHANGED chains
    /\ IF isMain
       THEN /\ pcMain' = "alloc"
            /\ alloc' = retryCall(RetryBudget, PreferredPort)
       ELSE UNCHANGED << pcMain, alloc >>
    /\ nExt' = nE
    /\ nDock' = nD

\* A mistaken createWindow that creates a tray on every call.
CreateRestNewTray(isMain, w, nE, nD) ==
    /\ createTray
    /\ IF mainWindow # NoWindow
       THEN /\ win' = w
            /\ UNCHANGED << mainWindow, allWindows, winCount, chains >>
       ELSE /\ winCount < MaxWindows
            /\ winCount' = winCount + 1
            /\ mainWindow' = winCount + 1
            /\ allWindows' = allWindows \cup { winCount + 1 }
            /\ win' = NewWindow
            /\ chains' = [ chains EXCEPT ![winCount + 1] = NewChain ]
    /\ IF isMain
       THEN /\ pcMain' = "alloc"
            /\ alloc' = retryCall(RetryBudget, PreferredPort)
       ELSE UNCHANGED << pcMain, alloc >>
    /\ nExt' = nE
    /\ nDock' = nD

\* A mistaken createWindow without the early return on an existing window.
CreateRestAlways(isMain, w, nE, nD) ==
    /\ IF ~tray THEN createTray ELSE UNCHANGED << tray, trayCount >>
    /\ winCount < MaxWindows
    /\ winCount' = winCount + 1
    /\ mainWindow' = winCount + 1
    /\ allWindows' = allWindows \cup { winCount + 1 }
    /\ win' = NewWindow
    /\ chains' = [ chains EXCEPT ![winCount + 1] = NewChain ]
    /\ IF isMain
       THEN /\ pcMain' = "alloc"
            /\ alloc' = retryCall(RetryBudget, PreferredPort)
       ELSE UNCHANGED << pcMain, alloc >>
    /\ nExt' = nE
    /\ nDock' = nD

\* Lines 139-195, with w the window state the platform adjustment left; the
\* continuation of app.whenReady (lines 244-252) follows in the same turn
\* when the awaited call returns: it calls retry(5, checkAvailablePort, 7113).
CreateRest(isMain, w, nE, nD) ==
    /\ IF ~tray THEN createTray ELSE UNCHANGED << tray, trayCount >>
    /\ IF mainWindow # NoWindow
       THEN /\ win' = w
            /\ UNCHANGED << mainWindow, allWindows, winCount, chains >>
       ELSE /\ winCount < MaxWindows
            /\ winCount' = winCount + 1
            /\ mainWindow' = winCount + 1
            /\ allWindows' = allWindows \cup { winCount + 1 }
            /\ win' = NewWindow
            /\ chains' = [ chains EXCEPT ![winCount + 1] = NewChain ]
    /\ IF isMain
       THEN /\ pcMain' = "alloc"
            /\ alloc' = retryCall(RetryBudget, PreferredPort)
       ELSE UNCHANGED << pcMain, alloc >>
    /\ nExt' = nE
    /\ nDock' = nD

\* Lines 133-137: the platform adjustment; on darwin the call awaits
\* app.dock.show().
PlatformStep(isMain, nE, nD) ==
    IF platform = "win32" /\ mainWindow # NoWindow
    THEN /\ CreateRest(isMain, [ win EXCEPT !.skipTaskbar = FALSE ], nE, nD)
         /\ UNCHANGED dockVisible
    ELSE IF platform = "darwin"
         THEN /\ dockVisible' = TRUE
              /\ Suspend(isMain, "cw_dock", nE, nD)
         ELSE /\ CreateRest(isMain, win, nE, nD)
              /\ UNCHANGED dockVisible

\* Lines 128-131: entry of createWindow.
createWindow(isMain) ==
    IF isDebug
    THEN Suspend(isMain, "cw_ext", nExt, nDock) /\ UNCHANGED dockVisible
    ELSE PlatformStep(isMain, nExt, nDock)

Rest == << platform, isDebug, port, service, servicePort,
           launches, activateOn, lastAlive, quitClicked, quitBy >>

\* app.whenReady().then(async () => { await createWindow(); ...
AppReady ==
    /\ Running
    /\ pcMain = "init"
    /\ createWindow(TRUE)
    /\ UNCHANGED Rest
    /\ UNCHANGED Renderer

\* Tray entry "Show App"
TrayShowApp ==
    /\ Running
    /\ tray
    /\ createWindow(FALSE)
    /\ UNCHANGED Rest
    /\ UNCHANGED Renderer

\* app.on("activate"), registered at the end of the whenReady callback; the
\* event is emitted on macOS, and the handler acts when mainWindow === null
Activate ==
    /\ Running
    /\ activateOn
    /\ platform = "darwin"
    /\ mainWindow = NoWindow
    /\ createWindow(FALSE)
    /\ UNCHANGED Rest
    /\ UNCHANGED Renderer

\* await installExtensions() resumes, in the awaited call or in a
\* fire-and-forget call, which may leave others suspended there (more = 1).
ExtensionsInstalled(isMain, more) ==
    /\ Running
    /\ IF isMain
       THEN pcMain = "cw_ext" /\ more = nExt /\ PlatformStep(TRUE, nExt, nDock)
       ELSE nExt > 0 /\ PlatformStep(FALSE, more, nDock)
    /\ UNCHANGED Rest
    /\ UNCHANGED Renderer

\* await app.dock.show() resumes, likewise
DockShown(isMain, more) ==
    /\ Running
    /\ IF isMain
       THEN pcMain = "cw_dock" /\ more = nDock /\ CreateRest(TRUE, win, nExt, nDock)
       ELSE nDock > 0 /\ CreateRest(FALSE, win, nExt, more)
    /\ UNCHANGED dockVisible
    /\ UNCHANGED Rest
    /\ UNCHANGED Renderer

\* ------------------------------------------------------ window lifecycle
\* mainWindow.on("ready-to-show"), with startMinimized the value the handler
\* reads from process.env.START_MINIMIZED
ReadyToShow(startMinimized) ==
    /\ Running
    /\ mainWindow # NoWindow
    /\ win.shown = "hidden"
    /\ win' = [ win EXCEPT !.shown = IF startMinimized THEN "minimized"
                                     ELSE "shown" ]
    /\ UNCHANGED << mainWindow, allWindows, winCount, tray, trayCount, chains,
                    pcMain, alloc, nExt, nDock, dockVisible >>
    /\ UNCHANGED Rest
    /\ UNCHANGED Renderer

\* app.quit(): Electron closes every window and ends the process.  Nothing of
\* the process is left: no window, no pending timer, request or promise.  quitBy keeps which handler called it.
appQuit(by) ==
    /\ quitBy' = by
    /\ mainWindow' = NoWindow
    /\ win' = NoWin
    /\ allWindows' = {}
    /\ nExt' = 0
    /\ nDock' = 0
    /\ chains' = [ c \in ChainIds |-> NoChain ]
    /\ alloc' = NoAlloc
    /\ pcMain' = "exited"
    /\ service' = "exited"
    /\ activateOn' = FALSE
    /\ lastAlive' = FALSE
    /\ UNCHANGED << platform, isDebug, winCount, tray,
                    trayCount, dockVisible, port, servicePort, launches >>
    /\ UNCHANGED Renderer

\* mainWindow.on("closed")
onClosed == NoWindow

\* A mistaken "window-all-closed" handler that never quits.
windowAllClosedStays(mw, w) ==
    /\ mainWindow' = mw
    /\ win' = w
    /\ allWindows' = allWindows \ { mainWindow }
    /\ dockVisible' = (IF platform = "darwin" THEN FALSE ELSE dockVisible)
    /\ UNCHANGED << platform, isDebug, winCount, tray, trayCount, port, pcMain,
                    alloc, nExt, nDock, service, servicePort, launches,
                    activateOn, chains, lastAlive, quitBy >>
    /\ UNCHANGED Renderer

\* app.on("window-all-closed"), run with mw the value of mainWindow and w the
\* state of the window it refers to; the window that closed is gone.
windowAllClosed(mw, w) ==
    IF platform = "win32" /\ mw # NoWindow
    THEN /\ mainWindow' = mw
         /\ win' = [ w EXCEPT !.skipTaskbar = TRUE ]
         /\ allWindows' = allWindows \ { mainWindow }
         /\ UNCHANGED << dockVisible, quitBy >>
         /\ UNCHANGED << platform, isDebug, winCount, tray,
                         trayCount, port, pcMain, alloc, nExt, nDock, service,
                         servicePort, launches, activateOn, chains, lastAlive >>
         /\ UNCHANGED Renderer
    ELSE IF platform = "darwin"
         THEN /\ dockVisible' = FALSE
              /\ mainWindow' = mw
              /\ win' = w
              /\ allWindows' = allWindows \ { mainWindow }
              /\ UNCHANGED quitBy
              /\ UNCHANGED << platform, isDebug, winCount,
                              tray, trayCount, port, pcMain, alloc, nExt,
                              nDock, service, servicePort, launches,
                              activateOn, chains, lastAlive >>
              /\ UNCHANGED Renderer
         ELSE appQuit("window-all-closed")

\* The only window closes: Electron emits "closed" on the window and then,
\* no window being left, "window-all-closed" on the app.
CloseWindow ==
    /\ Running
    /\ mainWindow # NoWindow
    /\ windowAllClosed(onClosed, NoWin)
    /\ UNCHANGED quitClicked

\* A mistaken "Quit" entry that quits only where closing the window would.
TrayQuitByPlatform ==
    /\ Running
    /\ tray
    /\ quitClicked' = TRUE
    /\ IF platform = "darwin"
       THEN UNCHANGED << platform, isDebug, mainWindow, win, allWindows,
                         winCount, tray, trayCount, dockVisible, port, pcMain, alloc, nExt,
                         nDock, service, servicePort, launches, activateOn,
                         chains, lastAlive, quitBy, hook, events >>
       ELSE appQuit("tray")

\* Tray entry "Quit": app.quit()
TrayQuit ==
    /\ Running
    /\ tray
    /\ quitClicked' = TRUE
    /\ appQuit("tray")

\* -------------------------------------------- app.whenReady, lines 252-270
WinVars == << mainWindow, win, allWindows, winCount, tray, trayCount,
              dockVisible, nExt, nDock, chains >>
Config == << platform, isDebug >>

\* A mistaken callback that, when retry rethrows, launches the service on the
\* port it has.
BindFailsFallsBack(x) ==
    /\ Running
    /\ pcMain = "alloc"
    /\ alloc.st = "binding"
    /\ alloc' = retryCatch(alloc, x)
    /\ IF alloc'.st = "rejected"
       THEN /\ pcMain' = "failed"
            /\ service' = "running"
            /\ servicePort' = port
            /\ launches' = launches + 1
       ELSE UNCHANGED << pcMain, service, servicePort, launches >>
    /\ UNCHANGED << port, activateOn, lastAlive, quitClicked, quitBy >>
    /\ UNCHANGED WinVars
    /\ UNCHANGED Config
    /\ UNCHANGED Renderer

\* The bind of the candidate fails: the .catch of retry runs; when it
\* rethrows, the whenReady callback ends in .catch(console.log).  The window,
\* tray and probe code only stores the port and compares it, so Next draws
\* one random candidate; RetrySpec draws RandomSamples(RetryGrain).
BindFails(x) ==
    /\ Running
    /\ pcMain = "alloc"
    /\ alloc.st = "binding"
    /\ alloc' = retryCatch(alloc, x)
    /\ pcMain' = IF alloc'.st = "rejected" THEN "failed" ELSE pcMain
    /\ UNCHANGED << port, service, servicePort, launches, activateOn,
                    lastAlive, quitClicked, quitBy >>
    /\ UNCHANGED WinVars
    /\ UNCHANGED Config
    /\ UNCHANGED Renderer

\* A mistaken callback that launches the service with the value port had
\* before the allocation.
BindSucceedsStalePort ==
    /\ Running
    /\ pcMain = "alloc"
    /\ alloc.st = "binding"
    /\ port' = checkAvailablePort(alloc).result
    /\ alloc' = [ NoAlloc EXCEPT !.st = "resolved" ]
    /\ service' = "running"
    /\ servicePort' = port
    /\ launches' = launches + 1
    /\ activateOn' = TRUE
    /\ pcMain' = "running"
    /\ lastAlive' = (port' = port /\ lastAlive)
    /\ UNCHANGED << quitClicked, quitBy >>
    /\ UNCHANGED WinVars
    /\ UNCHANGED Config
    /\ UNCHANGED Renderer

\* The bind succeeds: port = await retry(...); itchysats(network, dataDir,
\* port); app.on("activate", ...).  The activations of retry are garbage once
\* the promise has resolved.
BindSucceeds ==
    /\ Running
    /\ pcMain = "alloc"
    /\ alloc.st = "binding"
    /\ port' = checkAvailablePort(alloc).result
    /\ alloc' = [ NoAlloc EXCEPT !.st = "resolved" ]
    /\ service' = "running"
    /\ servicePort' = port'
    /\ launches' = launches + 1
    /\ activateOn' = TRUE
    /\ pcMain' = "running"
    /\ lastAlive' = (port' = port /\ lastAlive)
    /\ UNCHANGED << quitClicked, quitBy >>
    /\ UNCHANGED WinVars
    /\ UNCHANGED Config
    /\ UNCHANGED Renderer

\* itchysats(...).then(() => log.info("Stopped ItchySats."))
ServiceStops ==
    /\ Running
    /\ service = "running"
    /\ service' = "settled"
    /\ UNCHANGED << port, pcMain, alloc, servicePort, launches, activateOn,
                    lastAlive, quitClicked, quitBy >>
    /\ UNCHANGED WinVars
    /\ UNCHANGED Config
    /\ UNCHANGED Renderer

\* A mistaken .catch of the service promise that also stops the probes.
ServiceFailsStopsProbes ==
    /\ Running
    /\ service = "running"
    /\ service' = "settled"
    /\ chains' = [ c \in ChainIds |->
                     IF chains[c].st \in { "timer", "request" }
                     THEN [ chains[c] EXCEPT !.st = "done", !.reqPort = 0 ]
                     ELSE chains[c] ]
    /\ UNCHANGED << port, pcMain, alloc, servicePort, launches, activateOn,
                    lastAlive, quitClicked, quitBy >>
    /\ UNCHANGED << mainWindow, win, allWindows, winCount, tray, trayCount,
                    dockVisible, nExt, nDock >>
    /\ UNCHANGED Config
    /\ UNCHANGED Renderer

\* itchysats(...).catch((error) => log.error(error))
ServiceFails ==
    /\ Running
    /\ service = "running"
    /\ service' = "settled"
    /\ UNCHANGED << port, pcMain, alloc, servicePort, launches, activateOn,
                    lastAlive, quitClicked, quitBy >>
    /\ UNCHANGED WinVars
    /\ UNCHANGED Config
    /\ UNCHANGED Renderer

\* ------------------------------------------------------------- the probe
ProbeFrame == << mainWindow, allWindows, winCount, tray, trayCount, dockVisible, nExt,
                 nDock, port, pcMain, alloc, service, servicePort, launches,
                 activateOn, quitClicked, quitBy >>

\* The timer of chain c expires: alive(timeout) issues a request.
TimerFires(c) ==
    /\ Running
    /\ chains[c].st = "timer"
    /\ Requests < MaxRequests
    /\ chains' = [ chains EXCEPT ![c] = aliveRequest(@, port) ]
    /\ UNCHANGED << win, lastAlive >>
    /\ UNCHANGED ProbeFrame
    /\ UNCHANGED Config
    /\ UNCHANGED Renderer

\* The request of chain c ends in an error.
ProbeError(c) ==
    /\ Running
    /\ chains[c].st = "request"
    /\ chains' = [ chains EXCEPT ![c] = aliveError(@) ]
    /\ lastAlive' = (chains[c].reqPort # port /\ lastAlive)
    /\ UNCHANGED win
    /\ UNCHANGED ProbeFrame
    /\ UNCHANGED Config
    /\ UNCHANGED Renderer

\* The request of chain c receives a response (the Alive event).
ProbeResponse(c) ==
    /\ Running
    /\ chains[c].st = "request"
    /\ chains' = [ chains EXCEPT ![c] = aliveResponse(@, mainWindow) ]
    /\ win' = IF chains'[c].loads > chains[c].loads
              THEN loadService(win, port)
              ELSE win
    /\ lastAlive' = (chains[c].reqPort = port \/ lastAlive)
    /\ UNCHANGED ProbeFrame
    /\ UNCHANGED Config
    /\ UNCHANGED Renderer

\* loadURL(service URL) resolves: "Successfully loaded ItchySats!"
NavSucceeds ==
    /\ Running
    /\ mainWindow # NoWindow
    /\ win.nav = "pending"
    /\ win' = [ win EXCEPT !.nav = "none", !.content = "service" ]
    /\ UNCHANGED << chains, lastAlive >>
    /\ UNCHANGED ProbeFrame
    /\ UNCHANGED Config
    /\ UNCHANGED Renderer

\* loadURL(service URL) rejects: "Failed to load ItchySats!", nothing else
NavFails ==
    /\ Running
    /\ mainWindow # NoWindow
    /\ win.nav = "pending"
    /\ win' = [ win EXCEPT !.nav = "none" ]
    /\ UNCHANGED << chains, lastAlive >>
    /\ UNCHANGED ProbeFrame
    /\ UNCHANGED Config
    /\ UNCHANGED Renderer

\* --------------------------------------------- useLatestEvent (lines 4-32)
\* Values of JSON.parse: null, a number, or the SyntaxError it throws.
Null   == [ type |-> "null", value |-> 0 ]
Num(n) == [ type |-> "number", value |-> n ]
SyntaxError == [ type |-> "SyntaxError", value |-> 0 ]

\* The texts an event carries in event.data; "{" is not JSON.
EventData == { "null", "1", "2", "3", "{" }

\* JSON.parse(text) without a reviver
JSONvalue(text) ==
    CASE text = "null" -> Null
      [] text = "1"    -> Num(1)
      [] text = "2"    -> Num(2)
      [] text = "3"    -> Num(3)
      [] OTHER         -> SyntaxError

\* The argument mapping: the default (key, value) => value, or a reviver
\* that doubles numbers.
Mappings == { "identity", "double" }

mapping(m, v) ==
    IF m = "double" /\ v.type = "number" THEN Num(v.value + v.value) ELSE v

\* JSON.parse(event.data, mapping): the reviver is applied to the parsed
\* value; a text that is not JSON throws before it is.
JSONparse(text, m) ==
    IF JSONvalue(text) = SyntaxError
    THEN SyntaxError
    ELSE mapping(m, JSONvalue(text))

\* The argument filter: undefined, or data => data > 2 (false for null).
Filters == { "undefined", "greaterThanTwo" }

filter(f, data) == data.type = "number" /\ data.value > 2

\* useState<T | null>(null) at the first call of the hook
NewHook(f, m) ==
    [ filter |-> f, mapping |-> m, state |-> Null, returned |-> Null,
      dirty |-> FALSE ]

\* A mistaken listener that stores every parsed value.
listenerNoFilter(h, text) ==
    IF JSONparse(text, h.mapping) = SyntaxError
    THEN h
    ELSE [ h EXCEPT !.state = JSONparse(text, h.mapping), !.dirty = TRUE ]

\* The listener (lines 18-25): parse, return when the filter rejects,
\* setState(data).  A SyntaxError leaves the listener before setState.
listener(h, text) ==
    LET data == JSONparse(text, h.mapping) IN
    IF data = SyntaxError
    THEN h
    ELSE IF h.filter # "undefined" /\ ~filter(h.filter, data)
         THEN h
         ELSE [ h EXCEPT !.state = data, !.dirty = TRUE ]

MainVars == << platform, isDebug, mainWindow, win, allWindows, winCount, tray,
               trayCount, dockVisible, port, pcMain, alloc, nExt, nDock,
               service, servicePort, launches, activateOn, chains, lastAlive,
               quitClicked, quitBy >>

\* An event named event_name arrives on the source: the listener runs.
OnEvent(text) ==
    /\ Len(events) < MaxEvents
    /\ events' = Append(events, text)
    /\ hook' = listener(hook, text)
    /\ UNCHANGED MainVars

\* React renders the component after setState: the hook returns state.
Render ==
    /\ hook.dirty
    /\ hook' = [ hook EXCEPT !.returned = hook.state, !.dirty = FALSE ]
    /\ UNCHANGED events
    /\ UNCHANGED MainVars

\* ---------------------------------------------------------- specification
\* Module state of lines 54-56, before app.whenReady resolves.
Init ==
    /\ platform \in Platforms
    /\ isDebug \in BOOLEAN
    /\ mainWindow = NoWindow
    /\ win = NoWin
    /\ allWindows = {}
    /\ winCount = 0
    /\ tray = FALSE
    /\ trayCount = 0
    /\ dockVisible = TRUE
    /\ port = DefaultPort
    /\ pcMain = "init"
    /\ alloc = NoAlloc
    /\ nExt = 0
    /\ nDock = 0
    /\ service = "notStarted"
    /\ servicePort = 0
    /\ launches = 0
    /\ activateOn = FALSE
    /\ chains = [ c \in ChainIds |-> NoChain ]
    /\ lastAlive = FALSE
    /\ quitClicked = FALSE
    /\ quitBy = "none"
    /\ hook = NewHook("undefined", "identity")
    /\ events = << >>

Next ==
    \/ AppReady
    \/ TrayShowApp
    \/ Activate
    \/ \E m \in BOOLEAN : \E more \in 0 .. 1 : ExtensionsInstalled(m, more)
    \/ \E m \in BOOLEAN : \E more \in 0 .. 1 : DockShown(m, more)
    \/ \E m \in BOOLEAN : ReadyToShow(m)
    \/ CloseWindow
    \/ TrayQuit
    \/ BindFails(TopSample)
    \/ BindSucceeds
    \/ ServiceStops
    \/ ServiceFails
    \/ \E c \in ChainIds : TimerFires(c)
    \/ \E c \in ChainIds : ProbeError(c)
    \/ \E c \in ChainIds : ProbeResponse(c)
    \/ NavSucceeds
    \/ NavFails

Spec == Init /\ [][Next]_vars

\* A timer set with setTimeout expires as long as the process runs.
FairSpec == Spec /\ \A c \in ChainIds : WF_vars(TimerFires(c))

\* ------------------------------------------- retry on its own (RetrySpec)
\* port = await retry(R, checkAvailablePort, p) for every budget R up to
\* MaxBudget and two preferred ports, with every pattern of bind outcomes.
PreferredPorts == { PreferredPort, DefaultPort }

RetryInit ==
    /\ platform = "linux"
    /\ isDebug = FALSE
    /\ mainWindow = NoWindow
    /\ win = NoWin
    /\ allWindows = {}
    /\ winCount = 0
    /\ tray = FALSE
    /\ trayCount = 0
    /\ dockVisible = TRUE
    /\ port = DefaultPort
    /\ pcMain = "alloc"
    /\ \E R \in 0 .. MaxBudget : \E p \in PreferredPorts :
          alloc = retryCall(R, p)
    /\ nExt = 0
    /\ nDock = 0
    /\ service = "notStarted"
    /\ servicePort = 0
    /\ launches = 0
    /\ activateOn = FALSE
    /\ chains = [ c \in ChainIds |-> NoChain ]
    /\ lastAlive = FALSE
    /\ quitClicked = FALSE
    /\ quitBy = "none"
    /\ hook = NewHook("undefined", "identity")
    /\ events = << >>

RetryFrame == << platform, isDebug, mainWindow, win, allWindows, winCount, tray,
                 trayCount, dockVisible, nExt, nDock, service, servicePort,
                 launches, activateOn, chains, lastAlive, quitClicked,
                 quitBy >>

\* fn(port) rejects: the .catch of retry runs.
RetryBindFails(x) ==
    /\ alloc.st = "binding"
    /\ alloc' = retryCatch(alloc, x)
    /\ pcMain' = IF alloc'.st = "rejected" THEN "failed" ELSE pcMain
    /\ UNCHANGED port
    /\ UNCHANGED RetryFrame
    /\ UNCHANGED Renderer

\* fn(port) resolves: port = await retry(...)
RetryBindSucceeds ==
    /\ alloc.st = "binding"
    /\ alloc' = checkAvailablePort(alloc)
    /\ port' = alloc'.result
    /\ pcMain' = "running"
    /\ UNCHANGED RetryFrame
    /\ UNCHANGED Renderer

RetryNext ==
    \/ \E x \in RandomSamples(RetryGrain) : RetryBindFails(x)
    \/ RetryBindSucceeds

RetrySpec == RetryInit /\ [][RetryNext]_vars

\* ------------------------------------ a reachable service (ReachableSpec)
\* The program in an environment where the service, while it runs, answers
\* on the port it was launched with: a probe request or a navigation to that
\* port succeeds and any other one fails.
Reachable(p) == service = "running" /\ p = servicePort

ReachableProbeError(c) == ~Reachable(chains[c].reqPort) /\ ProbeError(c)

ReachableProbeResponse(c) == Reachable(chains[c].reqPort) /\ ProbeResponse(c)

ReachableNavSucceeds == Reachable(win.navPort) /\ NavSucceeds

ReachableNavFails == ~Reachable(win.navPort) /\ NavFails

ReachableNext ==
    \/ AppReady
    \/ TrayShowApp
    \/ Activate
    \/ \E m \in BOOLEAN : \E more \in 0 .. 1 : ExtensionsInstalled(m, more)
    \/ \E m \in BOOLEAN : \E more \in 0 .. 1 : DockShown(m, more)
    \/ \E m \in BOOLEAN : ReadyToShow(m)
    \/ CloseWindow
    \/ TrayQuit
    \/ BindFails(TopSample)
    \/ BindSucceeds
    \/ ServiceStops
    \/ ServiceFails
    \/ \E c \in ChainIds : TimerFires(c)
    \/ \E c \in ChainIds : ReachableProbeError(c)
    \/ \E c \in ChainIds : ReachableProbeResponse(c)
    \/ ReachableNavSucceeds
    \/ ReachableNavFails

\* Timers expire, requests and navigations are answered, and the awaits of
\* createWindow resolve, as long as the process runs.
ReachableSpec ==
    /\ Init
    /\ [][ReachableNext]_vars
    /\ \A c \in ChainIds :
          /\ WF_vars(TimerFires(c))
          /\ WF_vars(ReachableProbeError(c))
          /\ WF_vars(ReachableProbeResponse(c))
    /\ WF_vars(ReachableNavSucceeds)
    /\ WF_vars(ReachableNavFails)
    /\ WF_vars(\E more \in 0 .. 1 : ExtensionsInstalled(FALSE, more))
    /\ WF_vars(\E more \in 0 .. 1 : DockShown(FALSE, more))

\* ------------------------------------- useLatestEvent on its own (HookSpec)
\* One mounted hook, for every filter and mapping above and every sequence of
\* at most MaxEvents events; the main process is not started.
HookInit ==
    /\ platform = "linux"
    /\ isDebug = FALSE
    /\ mainWindow = NoWindow
    /\ win = NoWin
    /\ allWindows = {}
    /\ winCount = 0
    /\ tray = FALSE
    /\ trayCount = 0
    /\ dockVisible = TRUE
    /\ port = DefaultPort
    /\ pcMain = "init"
    /\ alloc = NoAlloc
    /\ nExt = 0
    /\ nDock = 0
    /\ service = "notStarted"
    /\ servicePort = 0
    /\ launches = 0
    /\ activateOn = FALSE
    /\ chains = [ c \in ChainIds |-> NoChain ]
    /\ lastAlive = FALSE
    /\ quitClicked = FALSE
    /\ quitBy = "none"
    /\ \E f \in Filters : \E m \in Mappings : hook = NewHook(f, m)
    /\ events = << >>

HookNext ==
    \/ \E text \in EventData : OnEvent(text)
    \/ Render

HookSpec == HookInit /\ [][HookNext]_vars

\* ================================================================ claims

\* C1: retry(R, checkAvailablePort, p) calls fn at most R+1 times and is, at
\* every moment, binding a candidate after as many failures as earlier
\* attempts, resolved with the candidate whose bind succeeded, or rejected
\* after exactly R+1 failed binds, all R retries consumed.
C1_RetryBounded ==
    /\ alloc.st \in { "binding", "resolved", "rejected" }
    /\ alloc.attempts <= alloc.budget + 1
    /\ alloc.st = "binding" => alloc.fails = alloc.attempts - 1
    /\ alloc.st = "resolved" =>
          /\ alloc.result = alloc.candidate
          /\ port = alloc.result
          /\ alloc.fails = alloc.attempts - 1
    /\ alloc.st = "rejected" =>
          /\ alloc.fails = alloc.budget + 1
          /\ alloc.attempts = alloc.budget + 1
          /\ alloc.maxRetries = 0

C1_Witness ==
    /\ alloc.st = "rejected"
    /\ alloc.budget = 3
    /\ alloc.attempts = 4
    /\ alloc.fails = 4

\* C7: a resolved allocation returns the candidate it was binding, every
\* earlier candidate having failed, and has consumed one retry per failed
\* bind: none, and the preferred port, when the first bind succeeds; one, and
\* the random candidate, when the first bind fails and the second succeeds.
C7_FirstFreeCandidate ==
    alloc.st = "resolved" =>
        /\ alloc.result = alloc.candidate
        /\ alloc.budget - alloc.maxRetries = alloc.fails
        /\ alloc.attempts = alloc.fails + 1
        /\ alloc.fails = 0 => alloc.result = alloc.preferred
        /\ alloc.fails >= 1 =>
              \E x \in RandomSamples(RetryGrain) : alloc.result = RandomPort(x)

C7_Witness ==
    /\ alloc.st = "resolved"
    /\ alloc.budget = RetryBudget
    /\ alloc.preferred = PreferredPort
    /\ alloc.fails = 1
    /\ alloc.maxRetries = RetryBudget - 1
    /\ alloc.result = maxPort
    /\ port = maxPort

RECURSIVE Pow2(_)
Pow2(n) == IF n = 0 THEN 1 ELSE 2 * Pow2(n - 1)

\* The probe attempt a chain is waiting for or has in flight, counted from 1.
AttemptNo(ch) == IF ch.st = "timer" THEN ch.attempt + 1 ELSE ch.attempt

Probing(ch) == ch.st \in { "timer", "request" }

\* C2 as stated: the delay before attempt k is InitialTimeout * 2^(k-1).
C2_DelayDoublesFromFirst ==
    \A c \in ChainIds :
        Probing(chains[c]) =>
            chains[c].delay = InitialTimeout * Pow2(AttemptNo(chains[c]) - 1)

\* C2 amended: the delay before attempt 1 is InitialTimeout and the delay
\* before attempt k >= 2, the one scheduled by the (k-1)-th failure, is
\* InitialTimeout * 2^(k-2); the timeout handed to alive is twice that, and
\* nothing caps either.
C2_DelaySchedule ==
    \A c \in ChainIds :
        Probing(chains[c]) =>
            LET k == AttemptNo(chains[c]) IN
            /\ chains[c].delay = IF k = 1 THEN InitialTimeout
                                 ELSE InitialTimeout * Pow2(k - 2)
            /\ chains[c].timeout = InitialTimeout * Pow2(k - 1)
            /\ chains[c].fails = k - 1

C2_Witness ==
    \E c \in ChainIds :
        /\ chains[c].st = "timer"
        /\ chains[c].fails = 3
        /\ chains[c].delay = 2000

\* C3 as stated: at most one Alive in a run, and no probe request after it.
C3_AliveOncePerRun ==
    [][ /\ AliveCount' <= 1
        /\ AliveCount >= 1 => Requests' <= Requests ]_vars

\* C3 amended: each probe chain, the one started by the creation of one
\* window, sees Alive at most once and issues no request after it; a run
\* sees at most one Alive per window created.
C3_AliveOncePerChain ==
    [][ /\ \A c \in ChainIds :
              /\ chains'[c].alives <= 1
              /\ chains[c].alives >= 1 =>
                    chains'[c].attempt <= chains[c].attempt
        /\ AliveCount' <= winCount' ]_vars

C3_Witness ==
    /\ chains[1].alives = 1
    /\ chains[2].alives = 1
    /\ AliveCount = 2

\* C4 as stated: on win32 the "window-all-closed" handler never calls
\* app.quit().
C4_Win32CloseKeepsProcess ==
    platform = "win32" => quitBy # "window-all-closed"

\* C5: on a platform other than win32 and darwin, once the window has been
\* closed the process has been ended, by the "window-all-closed" handler
\* unless the tray "Quit" was clicked while the window was open.
C5_OtherPlatformsQuitOnClose ==
    (platform \notin { "win32", "darwin" } /\ winCount > 0
       /\ mainWindow = NoWindow) =>
        quitBy = IF quitClicked THEN "tray" ELSE "window-all-closed"

C5_Witness ==
    /\ platform = "linux"
    /\ quitBy = "window-all-closed"
    /\ launches = 1
    /\ winCount = 1

\* C6: while the process runs and the tray exists the "Quit" entry can be
\* clicked, and a click has always invoked app.quit().
C6_TrayQuitAlwaysQuits ==
    /\ (Running /\ tray) => ENABLED TrayQuit
    /\ quitClicked => quitBy = "tray"

C6_Witness ==
    /\ quitClicked
    /\ quitBy = "tray"
    /\ platform = "darwin"
    /\ winCount = 2

\* C8: while the first window has never been closed, once a probe request
\* has received a response exactly one Alive has occurred, the requests
\* issued are the failed ones plus that one, all by the one chain, and the
\* service URL has been loaded exactly once.
C8_OneAliveOneLoad ==
    (Running /\ Closes = 0 /\ AliveCount >= 1) =>
        /\ AliveCount = 1
        /\ Requests = Failures + 1
        /\ Requests = chains[1].attempt
        /\ chains[1].st = "done"
        /\ ServiceLoads = 1
        /\ win.navPort # 0

C8_Witness ==
    /\ Running
    /\ Closes = 0
    /\ AliveCount = 1
    /\ Failures = 3
    /\ Requests = 4
    /\ ServiceLoads = 1

\* C9: a failed probe attempt always schedules the next one, with a delay
\* at least the previous one, and leaves the process running; while no
\* request has received a response the service URL is never loaded; and a
\* scheduled attempt is issued unless the process ends (or the model's
\* bound on requests is reached).
C9_ProbeNeverGivesUp ==
    /\ [][ \A c \in ChainIds :
              chains'[c].fails > chains[c].fails =>
                  /\ chains'[c].st = "timer"
                  /\ chains'[c].delay >= chains[c].delay
                  /\ chains'[c].delay > 0
                  /\ quitBy' = "none" ]_vars
    /\ [](AliveCount = 0 =>
              /\ ServiceLoads = 0
              /\ win.content # "service"
              /\ win.nav = "none")
    /\ \A c \in ChainIds :
          (chains[c].st = "timer") ~>
              (chains[c].st = "request" \/ ~Running
                 \/ Requests >= MaxRequests)

C9_Witness ==
    /\ Running
    /\ AliveCount = 0
    /\ chains[1].st = "timer"
    /\ chains[1].fails = 4
    /\ chains[1].delay = 4000
    /\ win.content = "index"

\* C10 as stated: with no load in flight, the service UI is loaded iff the
\* most recent probe of the current port succeeded and the window exists.
C10_LoadedIffLastProbeAlive ==
    win.nav # "pending" =>
        ((win.content = "service")
            <=> (lastAlive /\ mainWindow # NoWindow))

\* C10 amended: if the service UI is loaded then the window exists, that
\* window was told to load the service URL, and a probe received a response
\* while a window existed; the converse does not hold.
C10_LoadedOnlyAfterAlive ==
    /\ win.content = "service" =>
          /\ mainWindow # NoWindow
          /\ win.navPort # 0
          /\ \E c \in ChainIds :
                chains[c].alives >= 1 /\ chains[c].loads >= 1
    /\ mainWindow = NoWindow => win = NoWin

C10_Witness ==
    /\ win.content = "service"
    /\ mainWindow = 2
    /\ ~lastAlive
    /\ chains[1].fails >= 1

\* C11 as stated: every probe request in flight, and every load of the
\* service URL, targets the port that port allocation returned and that was
\* handed to the service launch; none is issued before the allocation has
\* completed.
C11_ProbeTargetsAllocatedPort ==
    /\ \A c \in ChainIds :
          chains[c].st = "request" =>
              /\ launches >= 1
              /\ chains[c].reqPort = servicePort
    /\ win.navPort # 0 =>
          /\ launches >= 1
          /\ win.navPort = servicePort

\* C12: once retry has rethrown, with its budget used up, the whenReady
\* callback has ended: no bind attempt is in flight or can follow, the
\* service has not been launched, the "activate" listener is not registered
\* and port still holds its initial value.
C12_ExhaustionIsFatal ==
    /\ (pcMain = "failed") <=> (alloc.st = "rejected")
    /\ pcMain = "failed" =>
          /\ alloc.fails = RetryBudget + 1
          /\ alloc.attempts = RetryBudget + 1
          /\ ~ENABLED BindFails(TopSample)
          /\ ~ENABLED BindSucceeds
          /\ launches = 0
          /\ service = "notStarted"
          /\ servicePort = 0
          /\ ~activateOn
          /\ port = DefaultPort

C12_Witness ==
    /\ pcMain = "failed"
    /\ alloc.st = "rejected"
    /\ Running
    /\ tray
    /\ chains[1].fails = 2
    /\ port = DefaultPort

\* C13: the step in which the service promise settles (stop or failure)
\* changes nothing but the state of that promise: the window, the tray, the
\* probe chains with their pending timers and requests, the port and the
\* suspended createWindow calls stay as they are, no load of the service URL
\* starts and the process keeps running.
C13_ServiceEndChangesNothingElse ==
    [][ (service = "running" /\ service' = "settled") =>
            /\ UNCHANGED << mainWindow, win, allWindows, winCount, tray,
                            trayCount, dockVisible, chains, port, nExt, nDock,
                            pcMain, activateOn, launches >>
            /\ quitBy' = "none"
            /\ ServiceLoads' = ServiceLoads ]_vars

C13_Witness ==
    /\ service = "settled"
    /\ Running
    /\ mainWindow # NoWindow
    /\ tray
    /\ chains[1].st = "request"
    /\ chains[1].fails = 1
    /\ win.content = "index"

\* C14: at most one BrowserWindow is live at any time, and it is the one
\* mainWindow refers to; so a window is constructed only when none is live,
\* also by a createWindow call that resumes from an await after another call
\* has created the window.
C14_SingleWindow ==
    /\ Cardinality(allWindows) <= 1
    /\ allWindows = IF mainWindow = NoWindow THEN {} ELSE { mainWindow }
    /\ winCount >= Cardinality(allWindows)

C14_Witness ==
    /\ Running
    /\ mainWindow = 2
    /\ allWindows = { 2 }
    /\ nDock = 1
    /\ platform = "darwin"

\* C15: at most one Tray is ever constructed, and the variable tray is
\* defined exactly when one has been, so a tray once present is never
\* absent again; it is constructed by the first createWindow call, the one
\* that constructs the first window.
C15_TrayOnce ==
    /\ trayCount <= 1
    /\ trayCount = IF tray THEN 1 ELSE 0
    /\ tray <=> winCount >= 1

C15_Witness ==
    /\ Running
    /\ tray
    /\ trayCount = 1
    /\ winCount = 2
    /\ mainWindow = NoWindow
    /\ nDock = 1

\* The live window was told to load the service URL and that load was
\* rejected: "Failed to load ItchySats!" has been logged for it.
NavFailed ==
    /\ mainWindow # NoWindow
    /\ win.navPort # 0
    /\ win.nav = "none"
    /\ win.content = "index"

\* C16 as stated: after a failed load of the service URL, as long as the
\* window is the same, no load of the service URL starts in it and the probe
\* chain started for it issues no request.
C16_NoReloadAfterNavFailure ==
    [][ (NavFailed /\ mainWindow' = mainWindow) =>
            /\ win'.nav # "pending"
            /\ chains'[mainWindow].attempt = chains[mainWindow].attempt ]_vars

PortRange == minPort .. maxPort

\* C17 as stated: every candidate of port allocation, and so the port it
\* returns, is in [minPort, maxPort].
C17_EveryCandidateInRange ==
    /\ alloc.candidate \in PortRange
    /\ alloc.st = "resolved" => port \in PortRange

\* C17 amended: the first candidate is the preferred port of the caller,
\* whatever it is; every candidate drawn after a failed bind is in
\* [minPort, maxPort]; the port returned is the preferred port when the
\* first bind succeeded and is in [minPort, maxPort] otherwise.
C17_RetryCandidatesInRange ==
    /\ alloc.attempts = 1 => alloc.candidate = alloc.preferred
    /\ alloc.attempts >= 2 => alloc.candidate \in PortRange
    /\ \A x \in RandomSamples(RetryGrain) : RandomPort(x) \in PortRange
    /\ alloc.st = "resolved" =>
          /\ port = alloc.result
          /\ IF alloc.fails = 0
             THEN port = alloc.preferred
             ELSE port \in PortRange

C17_Witness ==
    /\ alloc.st = "resolved"
    /\ alloc.preferred = PreferredPort
    /\ alloc.fails = 2
    /\ port = minPort

\* The parsed data of the most recent event of evs that parses and passes
\* the filter of h, or null when there is none.
RECURSIVE LatestMatch(_, _)
LatestMatch(h, evs) ==
    IF evs = << >>
    THEN Null
    ELSE LET data == JSONparse(evs[Len(evs)], h.mapping) IN
         IF /\ data # SyntaxError
            /\ (h.filter = "undefined" \/ filter(h.filter, data))
         THEN data
         ELSE LatestMatch(h, SubSeq(evs, 1, Len(evs) - 1))

\* C18: the state of the hook is null until an event parses and passes the
\* filter and is afterwards the parsed data of the most recent such event;
\* the value the hook returned is that state once the render that setState
\* requested has run.
C18_LatestMatchingValue ==
    /\ hook.state = LatestMatch(hook, events)
    /\ ~hook.dirty => hook.returned = hook.state
    /\ (\A i \in 1 .. Len(events) : LatestMatch(hook, << events[i] >>) = Null)
          => hook.returned = Null

C18_Witness ==
    /\ hook.filter = "greaterThanTwo"
    /\ hook.mapping = "double"
    /\ events = << "1", "2", "1" >>
    /\ hook.returned = Num(4)
    /\ ~hook.dirty

\* C19: on darwin, the step that closes the window leaves the process
\* running with mainWindow null and the dock icon hidden; every step that
\* constructs a window constructs exactly one, when none exists, and arms a
\* fresh probe chain for it; a createWindow call of "Show App" or "activate"
\* suspended at app.dock.show() while no window exists leads to a window;
\* and a recreated window leads to the service UI being loaded into it,
\* unless it is closed, the service is not running, or the model's bound on
\* requests is reached.
C19_DarwinReactivation ==
    /\ [][ /\ (platform = "darwin" /\ mainWindow # NoWindow
                 /\ mainWindow' = NoWindow /\ ~quitClicked') =>
                  /\ quitBy' = "none"
                  /\ ~dockVisible'
                  /\ allWindows' = {}
           /\ winCount' # winCount =>
                  /\ winCount' = winCount + 1
                  /\ mainWindow = NoWindow
                  /\ mainWindow' = winCount'
                  /\ allWindows' = { winCount' }
                  /\ chains'[winCount'] = NewChain
                  /\ win' = NewWindow ]_vars
    /\ (platform = "darwin" /\ Running /\ mainWindow = NoWindow /\ nDock = 1)
          ~> (mainWindow # NoWindow \/ ~Running \/ winCount >= MaxWindows)
    /\ \A w \in 2 .. MaxWindows :
          (platform = "darwin" /\ Running /\ mainWindow = w)
              ~> \/ mainWindow = w /\ win.content = "service"
                 \/ mainWindow # w
                 \/ service # "running"
                 \/ Requests >= MaxRequests

C19_Witness ==
    /\ platform = "darwin"
    /\ Running
    /\ winCount = 2
    /\ mainWindow = 2
    /\ dockVisible
    /\ chains[2].alives = 1
    /\ win.content = "service"

\* C20: itchysats(...) is called at most once; when it has been called, the
\* first window and the tray had been created, the allocation had resolved,
\* and the port handed over is the allocated one, which port holds from then
\* on; a settled service is one that was launched once, and nothing
\* launches it again.
C20_ServiceLaunchedOnce ==
    /\ launches <= 1
    /\ launches = 1 =>
          /\ winCount >= 1
          /\ trayCount = 1
          /\ pcMain \in { "running", "exited" }
          /\ alloc.st \in { "resolved", "idle" }
          /\ servicePort = port
          /\ servicePort = PreferredPort \/ servicePort \in PortRange
    /\ launches = 0 =>
          /\ service \in { "notStarted", "exited" }
          /\ servicePort = 0
    /\ service \in { "running", "settled" } => launches = 1 /\ Running

C20_Witness ==
    /\ Running
    /\ service = "settled"
    /\ launches = 1
    /\ servicePort = maxPort
    /\ winCount = 2
    /\ Requests >= 2
    /\ mainWindow = NoWindow

====
